---- MODULE Spec2Model ----
(***************************************************************************)
(* Model of wsfe.py: one command-line run of the AFIP electronic-invoicing *)
(* client.  The state is the WSFE object's fields, the position of main(), *)
(* the way the process ended, and what the run did to the outside world:   *)
(* the calls it made (in order), the tickets the provider issued, and the   *)
(* files it wrote.                                                          *)
(***************************************************************************)
EXTENDS Naturals, Sequences, FiniteSets, TLC

VARIABLES
    config,        \* main: config_data, the collaborator-supplied configuration
    request,       \* WSFE.request: 'comprobante' or 'parametro'
    option,        \* WSFE.option: the selected operation name
    currency_id,   \* WSFE.currency_id (set only for parametro/cotizacion)
    voucher_type,  \* WSFE.voucher_type (set only for some comprobante options)
    cuit,          \* WSFE.cuit
    token,         \* WSFE.token, assigned by main
    sign,          \* WSFE.sign, assigned by main
    output,        \* WSFE.output, assigned by set_output_path
    params,        \* the local params of __request_param / __request_fe, as last built
    response,      \* the local response of __request_param / __request_fe
    issued,        \* tickets handed out by the ticket provider, in order
    log,           \* every call that leaves the process, in order
    files,         \* the files on disk written by the run
    stdout,        \* lines printed by main
    pc,            \* position of main()
    exit           \* how the process ended

vars == <<config, request, option, currency_id, voucher_type, cuit, token, sign,
          output, params, response, issued, log, files, stdout, pc, exit>>

-----------------------------------------------------------------------------
(* Values                                                                  *)

\* Python's None, as it appears in a configuration value.
None == "None"

\* An attribute that has not been assigned yet.
Unset == "<unset>"

\* Number of distinct responses the remote service can give.
NumResponses == 2

Responses == 1..NumResponses

Tokens == {"tok1", "tok2"}
Signs == {"sig1", "sig2"}
Cuits == {"20123456786"}
CurrencyIds == {"DOL", None}
VoucherTypes == {"1"}
FaultCodes == {"600", "1000"}
FaultMessages == {"CUIT inválido", "Error interno"}

\* A truthy Python value among the configuration values used here.
Truthy(v) == v # None /\ v # ""

-----------------------------------------------------------------------------
(* The catalogs                                                            *)

\* The remote methods the module's docstring lists for CAE and CAEA
\* authorisation and for voucher queries (the invoicing family).
documented_fe_methods ==
    { "FECAESolicitar", "FECAEASolicitar", "FECAEAConsultar",
      "FECAEASinMovimientoInformar", "FECAEARegInformativo",
      "FECAEASinMovimientoConsultar", "FECompUltimoAutorizado",
      "FECompTotXRequest", "FECompConsultar" }

\* methods of __request_param
param_methods ==
    [ comprobante  |-> "FEParamGetTiposCbte",
      concepto     |-> "FEParamGetTiposConcepto",
      documento    |-> "FEParamGetTiposDoc",
      iva          |-> "FEParamGetTiposIva",
      monedas      |-> "FEParamGetTiposMonedas",
      opcional     |-> "FEParamGetTiposOpcional",
      tributos     |-> "FEParamGetTiposTributos",
      puntos_venta |-> "FEParamGetPtosVenta",
      cotizacion   |-> "FEParamGetCotizacion",
      tipos_paises |-> "FEParamGetTiposPaises" ]

\* methods of __request_fe
fe_methods ==
    [ solicitar                |-> "",
      consultar                |-> "FECAEAConsultar",
      informar_sin_movimiento  |-> "FECAEASinMovimientoInformar",
      consultar_sin_movimiento |-> "FECAEASinMovimientoConsultar",
      informar_comprobantes    |-> "FECAEARegInformativo",
      ultimo_autorizado        |-> "FECompUltimoAutorizado",
      cantidad_registros       |-> "FECompTotXRequest",
      consultar_comprobante    |-> "FECompConsultar" ]

\* The operation names a caller may select: every catalog key and a name of no
\* catalog.
OptionNames == DOMAIN param_methods \cup DOMAIN fe_methods \cup {"foo"}

Configs ==
    [ comprobante : OptionNames \cup {None},
      parametro   : OptionNames \cup {None},
      id          : CurrencyIds,
      tipo        : VoucherTypes ]

-----------------------------------------------------------------------------
(* Messages                                                                *)

UnsupportedMessage ==
    "El parámetro no está soportado por el Web " \o "Service de Factura Electrónica"

UnavailableMessage == "El servicio de AFIP no se encuentra disponible"

\* The fault's message and code in each other's place.
FaultMessage_swapped(code, message) == "Error: " \o message \o " " \o code

\* 'Error: {} {}'.format(error.code, error.message)
FaultMessage(code, message) == "Error: " \o code \o " " \o message

\* 'Respuesta AFIP en: {}'.format(voucher.output)
OutputMessage(path) == "Respuesta AFIP en: " \o path

-----------------------------------------------------------------------------
(* Collaborators outside wsfe.py                                           *)

\* WSBase.set_output_path: the path of output_file in the output directory.
set_output_path(output_file) == "output/" \o output_file

\* json.dumps(response, indent=2, ensure_ascii=False): the JSON text of a
\* response.
dumps(r) == [json |-> r, indent |-> 2, ensure_ascii |-> FALSE]

\* What WSAA.get_ticket can give: a ticket, or a failure.
TicketOutcomes ==
    [ok : {TRUE}, token : Tokens, sign : Signs]
        \cup [ok : {FALSE}, token : {Unset}, sign : {Unset}]

\* What WSBase.dummy can return: TRUE when the service is down.
DummyOutcomes == BOOLEAN

\* What web_service.soap_connect can do: return a response, or raise a
\* zeep Fault with a code and a message.
SoapOutcomes ==
    [ok : {TRUE}, value : Responses, code : {""}, message : {""}]
        \cup [ok : {FALSE}, value : {0}, code : FaultCodes, message : FaultMessages]

\* One entry of the log of outgoing calls: the collaborator called, the remote
\* method named, the payload handed over (<<>> when there is none), how the
\* call ended and, for a fault, its code and message.
Call(call, method, p, res, code, message) ==
    [call |-> call, method |-> method, params |-> p, res |-> res,
     code |-> code, message |-> message]

-----------------------------------------------------------------------------
(* WSFE.__init__                                                           *)

init_request(c) == IF Truthy(c.comprobante) THEN "comprobante" ELSE "parametro"

init_option(c) == c[init_request(c)]

init_currency_id(c) ==
    IF init_request(c) = "parametro" /\ init_option(c) = "cotizacion"
    THEN c.id
    ELSE Unset

init_voucher_type(c) ==
    IF /\ init_request(c) = "comprobante"
       /\ init_option(c) \in { "solicitar", "ultimo_autorizado",
                               "cantidad_registros", "consultar_comprobante" }
    THEN c.tipo
    ELSE Unset

\* The state once main has built the WSAA and WSFE objects.
Init ==
    /\ config \in Configs
    /\ request = init_request(config)
    /\ option = init_option(config)
    /\ currency_id = init_currency_id(config)
    /\ voucher_type = init_voucher_type(config)
    /\ cuit \in Cuits
    /\ token = Unset
    /\ sign = Unset
    /\ output = Unset
    /\ params = <<>>
    /\ response = <<>>
    /\ issued = <<>>
    /\ log = <<>>
    /\ files = {}
    /\ stdout = <<>>
    /\ pc = "get_ticket"
    /\ exit = [kind |-> "running", msg |-> ""]

-----------------------------------------------------------------------------
(* Ways a step ends                                                        *)

\* An exception that nothing catches ends the process.
Raise(kind, msg) ==
    /\ pc' = "failed"
    /\ exit' = [kind |-> kind, msg |-> msg]

\* get_request returns to main.
Return ==
    /\ pc' = "print"
    /\ UNCHANGED exit

\* open(path, 'w') followed by write(content): the file holds content alone.
Written(fs, path, content) ==
    {f \in fs : f.path # path} \cup {[path |-> path, content |-> content]}

-----------------------------------------------------------------------------
(* Names                                                                   *)

\* The names wsfe.py binds at module level.
module_globals ==
    [n \in { "dumps", "exceptions", "utility", "web_service", "WSAA", "WSFE",
             "main", "__author__", "__copyright__", "__license__",
             "__version__" } |-> n]

\* The names bound in __request_fe where it first reads req_type.
fe_locals == {"self", "methods", "method", "params"}

-----------------------------------------------------------------------------
(* Payloads                                                                *)

\* The token and the signature in each other's place.
param_params_swapped(opt, t, s, c, cur) ==
    LET p == [Auth |-> [Token |-> s, Sign |-> t, Cuit |-> c]]
    IN  IF opt = "cotizacion" THEN [MonId |-> cur] @@ p ELSE p

\* MonId added whatever the option.
param_params_always_MonId(opt, t, s, c, cur) ==
    [MonId |-> cur] @@ [Auth |-> [Token |-> t, Sign |-> s, Cuit |-> c]]

\* __request_param: the Auth block, and MonId for cotizacion.
param_params(opt, t, s, c, cur) ==
    LET p == [Auth |-> [Token |-> t, Sign |-> s, Cuit |-> c]]
    IN  IF opt = "cotizacion" THEN [MonId |-> cur] @@ p ELSE p

\* __request_fe: the Auth block.
fe_params(t, s, c) == [Auth |-> [Token |-> t, Sign |-> s, Cuit |-> c]]

\* __request_fe: the detail record of FECAESolicitar.
FECAEDetRequest ==
    [ Concepto |-> "", DocTipo |-> "", DocNro |-> "", CbteDesde |-> "",
      CbteHasta |-> "", CbteFch |-> "", ImpTotal |-> "", ImpTotConc |-> "",
      ImpNeto |-> "", ImpOpEx |-> "", ImpTrib |-> "", ImpIVA |-> "",
      FchServDesde |-> "", FchServHasta |-> "", FchVtoPago |-> "",
      MonId |-> "", MonCotiz |-> "",
      CbtesAsoc |-> [CbteAsoc |-> [Tipo |-> "", PtoVta |-> "", Nro |-> ""]],
      Tributos |-> [Tributo |-> [Id |-> "", Desc |-> "", BaseImp |-> "",
                                 Alic |-> "", Importe |-> ""]],
      Iva |-> [AlicIva |-> [Id |-> "", BaseImp |-> "", Importe |-> ""]],
      Opcionales |-> [Opcional |-> [Id |-> "", Valor |-> ""]] ]

\* __request_fe: the extra parameters by req_type; <<>> when neither branch
\* binds extra.
fe_extra(req_type) ==
    IF req_type = "FECAESolicitar"
    THEN << [ FeCAEReq |->
                [ FeCabReq |-> [CantReg |-> "", PtoVta |-> "", CbteTipo |-> ""],
                  FeDetReq |-> [FECAEDetRequest |-> FECAEDetRequest] ] ] >>
    ELSE IF req_type = "FECAEASolicitar" \/ req_type = "FECAEAConsultar"
    THEN << [Periodo |-> "", Orden |-> ""] >>
    ELSE << >>

-----------------------------------------------------------------------------
(* WSFE.__request_param, called with the log l of the calls made so far    *)

\* From the output path to the written file, for the remote method found.
send_param(l, method) ==
         LET path == set_output_path(option \o ".json")
             p == param_params(option, token, sign, cuit, currency_id)
         IN  /\ output' = path
             /\ params' = <<p>>
             /\ \E o \in SoapOutcomes :
                    /\ log' = Append(l, Call("soap_connect", method, <<p>>,
                                             IF o.ok THEN "ok" ELSE "fault",
                                             o.code, o.message))
                    /\ IF o.ok
                       THEN /\ response' = <<o.value>>
                            /\ files' = Written(files, path, dumps(o.value))
                            /\ Return
                       ELSE /\ Raise("SystemExit", FaultMessage(o.code, o.message))
                            /\ UNCHANGED <<response, files>>

\* The method looked up with a default instead of being validated.
request_param_unvalidated(l) ==
    send_param(l, IF option \in DOMAIN param_methods
                  THEN param_methods[option]
                  ELSE option)

request_param(l) ==
    IF option \notin DOMAIN param_methods
    THEN /\ Raise("SystemExit", UnsupportedMessage)
         /\ log' = l
         /\ UNCHANGED <<output, params, response, files>>
    ELSE send_param(l, param_methods[option])

-----------------------------------------------------------------------------
(* WSFE.__request_fe, called with the log l of the calls made so far       *)

\* From the output path to the remote call, for the remote method found.
send_fe(l, method) ==
         LET path == set_output_path(option \o ".json")
             p == fe_params(token, sign, cuit)
         IN  /\ output' = path
             /\ IF "req_type" \notin fe_locals \cup DOMAIN module_globals
                THEN \* reading req_type raises NameError
                     /\ Raise("NameError", "name 'req_type' is not defined")
                     /\ params' = <<p>>
                     /\ log' = l
                     /\ UNCHANGED <<response, files>>
                ELSE LET extra == fe_extra(module_globals["req_type"])
                     IN  IF extra = <<>>
                         THEN \* params.update(extra) with extra unbound
                              /\ Raise("UnboundLocalError",
                                       "local variable 'extra' referenced before assignment")
                              /\ params' = <<p>>
                              /\ log' = l
                              /\ UNCHANGED <<response, files>>
                         ELSE LET q == extra[1] @@ p
                              IN  /\ params' = <<q>>
                                  /\ UNCHANGED files
                                  /\ \E o \in SoapOutcomes :
                                       /\ log' = Append(l, Call("soap_connect", method, <<q>>,
                                                                IF o.ok THEN "ok" ELSE "fault",
                                                                o.code, o.message))
                                       /\ IF o.ok
                                          THEN /\ response' = <<o.value>>
                                               /\ Return
                                          ELSE /\ Raise("SystemExit",
                                                        FaultMessage(o.code, o.message))
                                               /\ UNCHANGED response

request_fe(l) ==
    IF option \notin DOMAIN fe_methods
    THEN /\ Raise("SystemExit", UnsupportedMessage)
         /\ log' = l
         /\ UNCHANGED <<output, params, response, files>>
    ELSE send_fe(l, fe_methods[option])

-----------------------------------------------------------------------------
(* WSFE.get_request                                                        *)

\* The test of dummy's result negated.
service_down_negated(dummy_result) == ~dummy_result

\* if self.dummy('FEDummy'): the service counts as down when dummy's result
\* is true.
service_down(dummy_result) == dummy_result

get_request ==
    /\ pc = "get_request"
    /\ \E down \in DummyOutcomes :
         LET l == Append(log, Call("dummy", "FEDummy", <<>>,
                                   IF down THEN "down" ELSE "up", "", ""))
         IN  IF service_down(down)
             THEN /\ Raise("SystemExit", UnavailableMessage)
                  /\ log' = l
                  /\ UNCHANGED <<output, params, response, files>>
             ELSE IF request = "parametro"
             THEN request_param(l)
             ELSE IF request = "comprobante"
             THEN request_fe(l)
             ELSE /\ Return
                  /\ log' = l
                  /\ UNCHANGED <<output, params, response, files>>
    /\ UNCHANGED <<config, request, option, currency_id, voucher_type, cuit,
                   token, sign, issued, stdout>>

-----------------------------------------------------------------------------
(* main                                                                    *)

\* voucher.token, voucher.sign = wsaa.get_ticket()
get_ticket ==
    /\ pc = "get_ticket"
    /\ \E t \in TicketOutcomes :
         /\ log' = Append(log, Call("get_ticket", "", <<>>,
                                    IF t.ok THEN "ok" ELSE "error", "", ""))
         /\ IF t.ok
            THEN /\ issued' = Append(issued, [token |-> t.token, sign |-> t.sign])
                 /\ token' = t.token
                 /\ sign' = t.sign
                 /\ pc' = "get_request"
                 /\ UNCHANGED exit
            ELSE /\ Raise("AuthenticationError", "")
                 /\ UNCHANGED <<issued, token, sign>>
    /\ UNCHANGED <<config, request, option, currency_id, voucher_type, cuit,
                   output, params, response, files, stdout>>

\* print('Respuesta AFIP en: {}'.format(voucher.output))
print_output ==
    /\ pc = "print"
    /\ stdout' = Append(stdout, OutputMessage(output))
    /\ pc' = "done"
    /\ exit' = [kind |-> "ok", msg |-> ""]
    /\ UNCHANGED <<config, request, option, currency_id, voucher_type, cuit,
                   token, sign, output, params, response, issued, log, files>>

Next == get_ticket \/ get_request \/ print_output

Spec == Init /\ [][Next]_vars

-----------------------------------------------------------------------------
(* Properties                                                              *)

\* The positions in the log of the calls to one collaborator.
Calls(call) == {i \in DOMAIN log : log[i].call = call}

Terminated == pc \in {"done", "failed"}

HealthUp == \E i \in Calls("dummy") : log[i].res = "up"

HealthDown == \E i \in Calls("dummy") : log[i].res = "down"

NoFault == \A i \in Calls("soap_connect") : log[i].res # "fault"

\* The selected operation is a key of the catalog of the selected mode.
SupportedOption ==
    \/ request = "parametro" /\ option \in DOMAIN param_methods
    \/ request = "comprobante" /\ option \in DOMAIN fe_methods

FailedWith(kind, msg) == pc = "failed" /\ exit = [kind |-> kind, msg |-> msg]

\* C1: the health check precedes ticket acquisition in every run, and a run
\* whose health check reports the service down fails with no get_ticket call
\* made.
C1_HealthCheckBeforeTicket ==
    \A i \in Calls("dummy") :
        /\ \A j \in Calls("get_ticket") : i < j
        /\ log[i].res = "down" => pc = "failed" /\ Calls("get_ticket") = {}

\* C2: when the remote method raises a fault, the run has failed with
\* 'Error: <code> <message>' of that fault and no file is written; a file is
\* written only after a remote call that returned.
C2_FaultPropagated ==
    /\ \A i \in Calls("soap_connect") :
           log[i].res = "fault" =>
               /\ FailedWith("SystemExit",
                             "Error: " \o log[i].code \o " " \o log[i].message)
               /\ files = {}
    /\ files # {} => \E i \in Calls("soap_connect") : log[i].res = "ok"

C2_Witness ==
    /\ pc = "failed"
    /\ \E i \in Calls("soap_connect") :
           /\ log[i].res = "fault"
           /\ log[i].code = "600"
           /\ log[i].message = "CUIT inválido"

\* C3 as stated: with an operation name of no catalog the run makes no call
\* at all (no health check, no ticket acquisition, no operation method),
\* writes no file and ends with the unsupported-operation error.
C3_NoCallAtAll ==
    ~SupportedOption =>
        /\ log = <<>>
        /\ files = {}
        /\ Terminated => FailedWith("SystemExit", UnsupportedMessage)

\* C3 as amended: with an operation name of no catalog no operation method
\* is ever invoked and no file is written, and the run whose ticket
\* acquisition and health check succeeded ends with the
\* unsupported-operation error.
C3_NoOperationCall ==
    ~SupportedOption =>
        /\ Calls("soap_connect") = {}
        /\ files = {}
        /\ Terminated /\ HealthUp => FailedWith("SystemExit", UnsupportedMessage)

C3_Witness ==
    /\ option = "foo"
    /\ FailedWith("SystemExit", UnsupportedMessage)

\* C4: for every operation of either catalog, a finished run whose health
\* check passed and whose remote call raised no fault is done and has
\* written the response, as JSON, to the file <option>.json.
C4_ResponseWritten ==
    Terminated /\ SupportedOption /\ HealthUp /\ NoFault =>
        /\ pc = "done"
        /\ response # <<>>
        /\ files = {[path |-> set_output_path(option \o ".json"),
                     content |-> dumps(response[1])]}

\* C5: the catalogs are total and one-to-one: the selected operation, when
\* it is a catalog key, maps to a non-empty method name; ten parameter
\* operations and the nine documented invoicing methods each have a key,
\* every key maps to a non-empty method name, and no two keys map to the
\* same name.
C5_CatalogTotalInjective ==
    LET Keys == {<<"parametro", k>> : k \in DOMAIN param_methods}
                    \cup {<<"comprobante", k>> : k \in DOMAIN fe_methods}
        Method(e) == IF e[1] = "parametro" THEN param_methods[e[2]]
                                           ELSE fe_methods[e[2]]
    IN  /\ SupportedOption => Method(<<request, option>>) # ""
        /\ Cardinality(DOMAIN param_methods) = 10
        /\ \A m \in documented_fe_methods :
               \E k \in DOMAIN fe_methods : fe_methods[k] = m
        /\ \A e \in Keys : Method(e) # ""
        /\ \A e, f \in Keys : Method(e) = Method(f) => e = f

\* The Auth block of a payload holds Token, Sign and Cuit alone, with the
\* token and signature the ticket provider issued in this run.
AuthBlock(p) ==
    /\ "Auth" \in DOMAIN p
    /\ DOMAIN p.Auth = {"Token", "Sign", "Cuit"}
    /\ Len(issued) = 1
    /\ p.Auth.Token = issued[1].token
    /\ p.Auth.Sign = issued[1].sign
    /\ p.Auth.Cuit = cuit

\* C6: every payload handed to a remote method, and every payload built by
\* either handler, has the Auth block of Token, Sign and Cuit with the token
\* and signature of this run's ticket.
C6_AuthBlock ==
    /\ \A i \in Calls("soap_connect") : AuthBlock(log[i].params[1])
    /\ params # <<>> => AuthBlock(params[1])

C6_Witness ==
    /\ \E i \in Calls("soap_connect") : log[i].params = params
    /\ params # <<>>
    /\ issued # <<>>

\* C7: the payload handed to FEParamGetCotizacion is the Auth block and
\* MonId, the configured currency id, and nothing else; the payload of every
\* other parameter method is the Auth block alone.
C7_ParamPayload ==
    \A i \in Calls("soap_connect") :
        request = "parametro" =>
            LET p == log[i].params[1]
            IN  IF option = "cotizacion"
                THEN /\ log[i].method = "FEParamGetCotizacion"
                     /\ DOMAIN p = {"Auth", "MonId"}
                     /\ p.MonId = config.id
                ELSE DOMAIN p = {"Auth"}

C7_Witness ==
    /\ request = "parametro"
    /\ option = "cotizacion"
    /\ config.id = "DOL"
    /\ \E i \in Calls("soap_connect") : log[i].params[1].MonId = "DOL"

\* The catalog keys of the period-scoped methods.
PeriodScopedOptions ==
    {k \in DOMAIN fe_methods : fe_methods[k] \in {"FECAEASolicitar", "FECAEAConsultar"}}

\* C8: a finished run of a period-scoped invoicing operation whose health
\* check passed has handed its method the Auth block with Periodo and Orden
\* and nothing else.
C8_PeriodScopedPayload ==
    /\ Terminated
    /\ request = "comprobante"
    /\ option \in PeriodScopedOptions
    /\ HealthUp
    => \E i \in Calls("soap_connect") :
           /\ log[i].method = fe_methods[option]
           /\ DOMAIN log[i].params[1] = {"Auth", "Periodo", "Orden"}

\* The catalog keys of the detail-bearing operations.
DetailBearingOptions == {"solicitar", "informar_comprobantes"}

SubGroups == {"CbtesAsoc", "Tributos", "Iva", "Opcionales"}

\* The detail record of a detail-bearing payload.
DetailRecord(p) ==
    IF "FeCAEReq" \in DOMAIN p
    THEN p.FeCAEReq.FeDetReq.FECAEDetRequest
    ELSE p.FeCAEARegInfReq.FeDetReq.FECAEADetRequest

\* C9: a finished run of a detail-bearing operation whose health check
\* passed (the caller can supply no sub-group entries) has handed its method
\* a payload whose detail record holds none of the sub-group keys.
C9_SubGroupsAbsent ==
    /\ Terminated
    /\ request = "comprobante"
    /\ option \in DetailBearingOptions
    /\ HealthUp
    => \E i \in Calls("soap_connect") :
           SubGroups \cap DOMAIN DetailRecord(log[i].params[1]) = {}

\* C10: the operation's method is invoked at most once and only after a
\* health check that reported the service up; after a health check that
\* reported it down the run has failed with no operation method invoked, no
\* output path set and no file written; no step happens twice.
C10_HealthGate ==
    /\ Cardinality(Calls("soap_connect")) <= 1
    /\ \A i \in Calls("soap_connect") :
           \E j \in Calls("dummy") : j < i /\ log[j].res = "up"
    /\ HealthDown =>
           /\ FailedWith("SystemExit", UnavailableMessage)
           /\ Calls("soap_connect") = {}
           /\ output = Unset
           /\ files = {}
    /\ Cardinality(Calls("dummy")) <= 1
    /\ Cardinality(Calls("get_ticket")) <= 1
    /\ Cardinality(files) <= 1
    /\ Len(stdout) <= 1

C10_Witness == HealthDown /\ pc = "failed"

====
